---- MODULE Spec2Model ----
(***************************************************************************)
(* State-machine model of the trips web app back end:                      *)
(*   src/app-login/src/App.tsx (lines 141-440 hold the Go file with the    *)
(*   login handlers and main) and src/api/get_trips.go (trip aggregator).  *)
(*                                                                         *)
(* Strings that the code concatenates or compares are sequences: a cache   *)
(* key is a sequence of atoms ("privilegeToken_" + cookie is               *)
(* <<"privilegeToken_">> \o cookie), a timestamp is a sequence of digits   *)
(* compared lexicographically, as Go compares strings.  A decoded JSON     *)
(* object (map[string]interface{}) is a function whose DOMAIN is the set   *)
(* of fields that are present.  Time is counted in hours; a cache item     *)
(* carries the hours left until its expiration instant (negative once the  *)
(* instant has passed), which the clock's tick decreases.                  *)
(***************************************************************************)
EXTENDS Integers, Sequences, FiniteSets, TLC

VARIABLES
    cacheInstance,       \* the go-cache store: key -> [value, ttl]
    tripIDToTokenIDMap,  \* trip id -> vehicle token id
    alive,               \* FALSE once a handler has panicked (no recover middleware)
    req,                 \* the request being answered (NoReq when idle)
    resp,                \* what its handler answered
    listed,              \* history: trip ids returned by successful listTrips calls
    tasks                \* where each request goroutine stands at the trip index

vars == <<cacheInstance, tripIDToTokenIDMap, alive, req, resp, listed, tasks>>

-----------------------------------------------------------------------------
(* Bounds *)

MaxEntries == 2
MaxHits == 3
MaxVehicles == 2
MaxTasks == 2

(* Program constants *)

SessionTTL == 2
StatusOK == 200
StatusMultipleChoices == 300
StatusBadRequest == 400
StatusUnauthorized == 401
StatusNotFound == 404
StatusInternalServerError == 500

(* Input domains *)

UUIDs == {"u1", "u2"}
Tokens == {"tokA", "tokB"}
TokenIDs == {1, 2}
TripIDs == {"trip1", "trip2"}
Addresses == {"", "0xABC"}

EmptyMap == [x \in {} |-> x]
NoCookie == EmptyMap
NoBody == EmptyMap

-----------------------------------------------------------------------------
(* The go-cache store, as configured at construction *)

\* cache.New(cache.DefaultExpiration, 10*time.Minute): an empty store
NewCache == EmptyMap

\* an item is expired once the clock is past its expiration instant
Expired(item) == item.ttl < 0

\* variant: an expired item that the janitor has not yet deleted is returned
CacheFoundStale(c, k) == k \in DOMAIN c

\* c.Get(k): found only when the item is there and has not expired
CacheFound(c, k) == k \in DOMAIN c /\ ~Expired(c[k])

CacheValue(c, k) == c[k].value

\* c.Set(k, x, d): the item replaces any earlier one and expires d from now
CacheSet(c, k, x, d) ==
    [kk \in DOMAIN c \cup {k} |->
        IF kk = k THEN [value |-> x, ttl |-> d] ELSE c[kk]]

\* the janitor's DeleteExpired, run every cleanup interval
DeleteExpired(c) ==
    [k \in {kk \in DOMAIN c : ~Expired(c[kk])} |-> c[k]]

\* one hour passes: every item is an hour closer to (or past) its expiration
Age(c) ==
    [k \in DOMAIN c |->
        [c[k] EXCEPT !.ttl = IF c[k].ttl < 0 THEN c[k].ttl ELSE c[k].ttl - 1]]

-----------------------------------------------------------------------------
(* Requests and responses *)

NoReq == [op |-> "none"]

\* status 0: the code under study sets no HTTP status on this path
NoResp == [outcome |-> "none", status |-> 0, message |-> "",
           cookie |-> NoCookie, body |-> NoBody, calls |-> <<>>]

\* c.Status(s).SendString(m)
SendString(s, m, calls) ==
    [outcome |-> "error", status |-> s, message |-> m,
     cookie |-> NoCookie, body |-> NoBody, calls |-> calls]

-----------------------------------------------------------------------------
(* Challenge-response authenticator *)

\* what the identity provider may answer to the challenge request; the body
\* decodes into ChallengeResponse, an absent field decoding to ""
ChallengeUpstreams ==
    {[transport |-> "error", kind |-> "none", state |-> "", challenge |-> ""],
     [transport |-> "ok", kind |-> "unreadable", state |-> "", challenge |-> ""],
     [transport |-> "ok", kind |-> "undecodable", state |-> "", challenge |-> ""]}
    \cup {[transport |-> "ok", kind |-> "json", state |-> s, challenge |-> c] :
            s \in {"", "s1"}, c \in {"", "c1"}}

ChallengeCall(address) == [service |-> "challenge", address |-> address]

HandleGenerateChallenge(address, up) ==
    LET calls == <<ChallengeCall(address)>> IN
    IF up.transport = "error"
    THEN SendString(StatusInternalServerError,
                    "Failed to make request to external service", calls)
    ELSE IF up.kind = "unreadable"
    THEN SendString(StatusInternalServerError,
                    "Error reading external response", calls)
    ELSE IF up.kind = "undecodable"
    THEN SendString(StatusInternalServerError,
                    "Error processing response from external service", calls)
    ELSE IF up.state = "" \/ up.challenge = ""
    THEN SendString(StatusInternalServerError,
                    "State or Challenge incomplete from external service", calls)
    ELSE [outcome |-> "ok", status |-> StatusOK, message |-> "",
          cookie |-> NoCookie,
          body |-> [state |-> up.state, challenge |-> up.challenge],
          calls |-> calls]

\* what the identity provider may answer to the submitted signature; a body
\* that decodes is a map with or without the access_token field
SubmitBodies ==
    {[kind |-> "unreadable", map |-> EmptyMap],
     [kind |-> "undecodable", map |-> EmptyMap],
     [kind |-> "map", map |-> EmptyMap]}
    \cup {[kind |-> "map", map |-> [access_token |-> t]] : t \in Tokens}

SubmitUpstreams ==
    {[transport |-> "error", status |-> 0,
      body |-> [kind |-> "unreadable", map |-> EmptyMap]]}
    \cup {[transport |-> "ok", status |-> s, body |-> b] :
            s \in {StatusOK, StatusMultipleChoices}, b \in SubmitBodies}

\* uuid.New().String()
\* variant: the session id does not depend on the generated UUID
UUIDStringFixed(u) == <<"u1">>

UUIDString(u) == <<u>>

\* uuid.New(): a random UUID, which differs from every id in use
FreshUUIDs(c) == {u \in UUIDs : <<u>> \notin DOMAIN c}

\* c.FormValue("state"), c.FormValue("signature")
SubmitForms == {[state |-> "s1", signature |-> "sig1"]}

SubmitCall(form) ==
    [service |-> "submit", state |-> form.state, signature |-> form.signature]

\* variant: the boundary status 300 passes as a success
NonSuccessAbove(status) == status > StatusMultipleChoices

\* resp.StatusCode >= 300
NonSuccess(status) == status >= StatusMultipleChoices

\* variant: the item outlives the cookie by an hour
sessionItemLonger(sessionID, token) ==
    [key |-> sessionID, value |-> token, ttl |-> SessionTTL + 1]

\* cacheInstance.Set(sessionID, token, 2*time.Hour)
sessionItem(sessionID, token) ==
    [key |-> sessionID, value |-> token, ttl |-> SessionTTL]

\* the session_id cookie: HTTP-only, expiring 2 hours from now
sessionCookieOf(sessionID) ==
    [name |-> "session_id", value |-> sessionID, expires |-> SessionTTL,
     httpOnly |-> TRUE, domain |-> "localhost"]

\* fiber.Map{"message": ..., "access_token": token}
submitBody(token) ==
    [message |-> "Challenge accepted and session started!",
     access_token |-> token]

\* The handler's verdict: the response, and the cache item it sets (if any).
HandleSubmitChallenge(form, up, uuid) ==
    LET calls == <<SubmitCall(form)>>
        fail(m) == [resp |-> SendString(StatusInternalServerError, m, calls),
                    set |-> <<>>]
    IN
    IF up.transport = "error"
    THEN fail("Failed to make request to external service")
    ELSE IF NonSuccess(up.status)
    THEN fail("Received non-success status code")
    ELSE IF up.body.kind = "unreadable"
    THEN fail("Failed to read response from external service")
    ELSE IF up.body.kind = "undecodable"
    THEN fail("Error processing response")
    ELSE IF "access_token" \notin DOMAIN up.body.map
    THEN fail("Token not found in response")
    ELSE LET token == up.body.map["access_token"]
             sessionID == UUIDString(uuid)
         IN [resp |-> [outcome |-> "ok", status |-> StatusOK, message |-> "",
                       cookie |-> sessionCookieOf(sessionID),
                       body |-> submitBody(token),
                       calls |-> calls],
             set |-> <<sessionItem(sessionID, token)>>]

-----------------------------------------------------------------------------
(* Trip aggregator: listing trips *)

Range(f) == {f[x] : x \in DOMAIN f}

\* the value of the session_id cookie a request carries
Cookies == {UUIDString(u) : u \in UUIDs}

\* variant: every session reads the token cached for session u1
privilegeTokenKeyShared(sessionCookie) == <<"privilegeToken_", "u1">>

\* variant: the lookup key is the session cookie itself
privilegeTokenKeyBare(sessionCookie) == sessionCookie

\* "privilegeToken_" + sessionCookie
privilegeTokenKey(sessionCookie) == <<"privilegeToken_">> \o sessionCookie

\* the store the trip aggregator reads: the process-wide cache
CacheInstance == cacheInstance

TripLists == {<<>>, <<"trip1">>, <<"trip2">>, <<"trip1", "trip2">>}

\* what the trip-listing service may answer; up.trips is what the decoder has
\* put into tripsResponse, which it may have filled in part when it fails
TripsUpstreams ==
    {[transport |-> "error", kind |-> "none", trips |-> <<>>],
     [transport |-> "ok", kind |-> "undecodable", trips |-> <<>>],
     [transport |-> "ok", kind |-> "undecodable", trips |-> <<"trip1">>]}
    \cup {[transport |-> "ok", kind |-> "json", trips |-> ts] : ts \in TripLists}

TripsCall(tokenID, token) ==
    [service |-> "trips", tokenID |-> tokenID, bearer |-> token]

\* variant: a trip id already in the index keeps its vehicle
RecordTripsKeepFirst(index, trips, tokenID) ==
    [t \in DOMAIN index \cup Range(trips) |->
        IF t \in DOMAIN index THEN index[t] ELSE tokenID]

\* variant: the index is rebuilt from the trips just returned
RecordTripsReplace(index, trips, tokenID) ==
    [t \in Range(trips) |-> tokenID]

\* for _, trip := range trips { tripIDToTokenIDMap[trip.ID] = tokenID }
RecordTrips(index, trips, tokenID) ==
    [t \in DOMAIN index \cup Range(trips) |->
        IF t \in Range(trips) THEN tokenID ELSE index[t]]

\* The query's verdict: the trips and error it returns, the outbound calls it
\* made and the trip index it leaves.
queryTripsAPI(tokenID, sessionCookie, up, cache, index) ==
    LET key == privilegeTokenKey(sessionCookie) IN
    IF ~CacheFound(cache, key)
    THEN [trips |-> <<>>, err |-> "privilege token not found in cache",
          calls |-> <<>>, index |-> index]
    ELSE LET calls == <<TripsCall(tokenID, CacheValue(cache, key))>> IN
         IF up.transport = "error"
         THEN [trips |-> <<>>, err |-> "transport error",
               calls |-> calls, index |-> index]
         ELSE IF up.kind = "undecodable"
         THEN [trips |-> <<>>, err |-> "decode error",
               calls |-> calls, index |-> index]
         ELSE [trips |-> up.trips, err |-> "",
               calls |-> calls, index |-> RecordTrips(index, up.trips, tokenID)]

-----------------------------------------------------------------------------
(* Trip aggregator: the path of a trip *)

\* iTimestamp < jTimestamp on Go strings: lexicographic
StrLess(a, b) ==
    \E i \in 1..Len(b) :
        /\ \A j \in 1..(i - 1) : j <= Len(a) /\ a[j] = b[j]
        /\ (i > Len(a) \/ a[i] < b[i])

\* variant: descending order
hitGreater(hi, hj) == StrLess(hj["timestamp"], hi["timestamp"])

\* variant: a non-strict comparator
hitLessOrEqual(hi, hj) == ~StrLess(hj["timestamp"], hi["timestamp"])

\* the comparator of sort.SliceStable
hitLess(hi, hj) == StrLess(hi["timestamp"], hj["timestamp"])

\* the comparator's type assertions panic on a hit without a timestamp
lessPanics(hi, hj) ==
    "timestamp" \notin DOMAIN hi \/ "timestamp" \notin DOMAIN hj

Swap(s, i, j) == [s EXCEPT ![i] = s[j], ![j] = s[i]]

\* sort.SliceStable on at most 20 elements is one insertion sort:
\*   for i := a + 1; i < b; i++ {
\*       for j := i; j > a && less(j, j-1); j-- { swap(j, j-1) } }
\* A state of the sort is [hits, panic].
RECURSIVE insertInner(_, _)
insertInner(st, j) ==
    IF st.panic \/ j <= 1 THEN st
    ELSE IF lessPanics(st.hits[j], st.hits[j - 1])
    THEN [st EXCEPT !.panic = TRUE]
    ELSE IF hitLess(st.hits[j], st.hits[j - 1])
    THEN insertInner([st EXCEPT !.hits = Swap(st.hits, j, j - 1)], j - 1)
    ELSE st

RECURSIVE insertionSort(_, _)
insertionSort(st, i) ==
    IF st.panic \/ i > Len(st.hits) THEN st
    ELSE insertionSort(insertInner(st, i), i + 1)

SliceStable(hits) == insertionSort([hits |-> hits, panic |-> FALSE], 2)

\* LocationData{Latitude: data["latitude"].(float64), Longitude: ...}
locDataPanics(data) ==
    "latitude" \notin DOMAIN data \/ "longitude" \notin DOMAIN data

locData(data) ==
    [Latitude |-> data["latitude"], Longitude |-> data["longitude"]]

extractLocationData(hits) ==
    IF \E i \in 1..Len(hits) : locDataPanics(hits[i])
    THEN [locations |-> <<>>, panic |-> TRUE]
    ELSE [locations |-> [i \in 1..Len(hits) |-> locData(hits[i])],
          panic |-> FALSE]

\* []float64{loc.Longitude, loc.Latitude}
coordinate(loc) == <<loc.Longitude, loc.Latitude>>

\* variant: trip_start and trip_end exchanged
featurePropertiesSwapped(tripID, tripStart, tripEnd) ==
    [type |-> "LineString", trip_id |-> tripID, trip_start |-> tripEnd,
     trip_end |-> tripStart, privacy_zone |-> 1, color |-> "black",
     point_color |-> "black"]

featureProperties(tripID, tripStart, tripEnd) ==
    [type |-> "LineString", trip_id |-> tripID, trip_start |-> tripStart,
     trip_end |-> tripEnd, privacy_zone |-> 1, color |-> "black",
     point_color |-> "black"]

convertToGeoJSON(locations, tripID, tripStart, tripEnd) ==
    [type |-> "FeatureCollection",
     features |->
        <<[type |-> "Feature",
           geometry |-> [type |-> "LineString",
                         coordinates |-> [i \in 1..Len(locations) |->
                                            coordinate(locations[i])]],
           properties |-> featureProperties(tripID, tripStart, tripEnd)]>>]

\* a hit's _source.data object: the fields present among latitude,
\* longitude, timestamp
Positions ==
    {[latitude |-> 10, longitude |-> 20], [latitude |-> 11, longitude |-> 21],
     [longitude |-> 20], [latitude |-> 10]}

Timestamps == {<<0, 1>>, <<0, 2>>, <<1>>}

Hits ==
    Positions \cup {p @@ [timestamp |-> ts] : p \in Positions, ts \in Timestamps}

SeqsUpTo(S, n) == UNION {[1..k -> S] : k \in 0..n}

\* what the telemetry history service may answer; "nohits" is a JSON object
\* without the hits array
HistoryFailures ==
    {[transport |-> "error", kind |-> "none", hits |-> <<>>],
     [transport |-> "ok", kind |-> "unreadable", hits |-> <<>>],
     [transport |-> "ok", kind |-> "undecodable", hits |-> <<>>],
     [transport |-> "ok", kind |-> "nohits", hits |-> <<>>]}

HistoryAnswers(payloads) ==
    {[transport |-> "ok", kind |-> "json", hits |-> h] : h \in payloads}

SamplePayloads ==
    {<<>>,
     <<[latitude |-> 10, longitude |-> 20, timestamp |-> <<0, 2>>],
       [latitude |-> 11, longitude |-> 21, timestamp |-> <<0, 1>>]>>,
     <<[latitude |-> 11, longitude |-> 21, timestamp |-> <<0, 1>>],
       [longitude |-> 20, timestamp |-> <<0, 2>>]>>,
     <<[latitude |-> 10, longitude |-> 20]>>}

\* the startTime and endTime of a request
TimeWindows == {<<"T1", "T2">>, <<"T2", "T3">>}

HistoryCall(tokenID, startTime, endTime, token) ==
    [service |-> "history", tokenID |-> tokenID, startDate |-> startTime,
     endDate |-> endTime, bearer |-> token]

\* The query's verdict: the locations and error it returns, the outbound
\* calls it made, and whether it panicked instead of returning.
queryDeviceDataHistory(tokenID, startTime, endTime, sessionCookie, up, cache) ==
    LET key == privilegeTokenKey(sessionCookie)
        ret(locations, err, calls, panic) ==
            [locations |-> locations, err |-> err, calls |-> calls,
             panic |-> panic]
    IN
    IF ~CacheFound(cache, key)
    THEN ret(<<>>, "privilege token not found in cache", <<>>, FALSE)
    ELSE LET calls == <<HistoryCall(tokenID, startTime, endTime,
                                    CacheValue(cache, key))>> IN
         IF up.transport = "error" THEN ret(<<>>, "transport error", calls, FALSE)
         ELSE IF up.kind = "unreadable" THEN ret(<<>>, "read error", calls, FALSE)
         ELSE IF up.kind = "undecodable" THEN ret(<<>>, "decode error", calls, FALSE)
         ELSE IF up.kind = "nohits" THEN ret(<<>>, "", calls, TRUE)
         ELSE LET sorted == SliceStable(up.hits) IN
              IF sorted.panic THEN ret(<<>>, "", calls, TRUE)
              ELSE LET ex == extractLocationData(sorted.hits) IN
                   ret(ex.locations, "", calls, ex.panic)

\* c.Status(s).JSON(fiber.Map{"error": m})
ErrorJSON(s, m, calls) ==
    [outcome |-> "error", status |-> s, message |-> m,
     cookie |-> NoCookie, body |-> [error |-> m], calls |-> calls]

\* the handler never returned: a type assertion panicked
Panicked(calls) ==
    [outcome |-> "panic", status |-> 0, message |-> "",
     cookie |-> NoCookie, body |-> NoBody, calls |-> calls]

\* variant: the exists flag is ignored
tripExistsAlways(index, tripID) == TRUE

\* tokenID, exists := tripIDToTokenIDMap[tripID]
tripExists(index, tripID) == tripID \in DOMAIN index

tripTokenID(index, tripID) ==
    IF tripID \in DOMAIN index THEN index[tripID] ELSE 0

handleMapDataForTrip(sessionCookie, tripID, startTime, endTime, up, cache, index) ==
    IF ~tripExists(index, tripID)
    THEN SendString(StatusNotFound, "Trip not found", <<>>)
    ELSE LET q == queryDeviceDataHistory(tripTokenID(index, tripID), startTime,
                                         endTime, sessionCookie, up, cache) IN
         IF q.panic THEN Panicked(q.calls)
         ELSE IF q.err # ""
         THEN ErrorJSON(StatusInternalServerError, q.err, q.calls)
         ELSE [outcome |-> "ok", status |-> StatusOK, message |-> "",
               cookie |-> NoCookie,
               body |-> convertToGeoJSON(q.locations, tripID, startTime, endTime),
               calls |-> q.calls]

-----------------------------------------------------------------------------
(* Vehicles: the authorization gate and listVehicles *)

Owners == {"0xABC", "0xDEF"}

\* A bearer credential as the gate's validation sees it: the address the
\* token was issued for, or why validation fails.
ValidationFailures ==
    {"missing", "expired", "malformed", "signature mismatch",
     "key set fetch failure"}

Credentials ==
    {[valid |-> FALSE, failure |-> f, address |-> ""] : f \in ValidationFailures}
      \cup {[valid |-> TRUE, failure |-> "", address |-> a] : a \in Owners}

\* A value of c.Locals with its dynamic type.
NilLocal == [type |-> "nil", value |-> ""]

StringLocal(s) == [type |-> "string", value |-> s]

\* the parsed token the gate stores under ContextKey; value is the address in
\* its claims
TokenLocal(address) == [type |-> "*jwt.Token", value |-> address]

\* ErrorHandler of the gate
jwtErrorHandler == SendString(StatusUnauthorized, "Unauthorized", <<>>)

\* jwtware.New(Config{ErrorHandler, ContextKey}): a credential that fails
\* validation goes to the ErrorHandler and the chain stops; a valid one is
\* stored, as the parsed token, under ContextKey and the next handler runs.
jwtMiddleware(cred) ==
    IF cred.valid
    THEN [next |-> TRUE, locals |-> TokenLocal(cred.address), resp |-> NoResp]
    ELSE [next |-> FALSE, locals |-> NilLocal, resp |-> jwtErrorHandler]

Vehicles == {"v1", "v2"}

IdentityStatuses == {200, 404, 500}

\* The identity service's answer: no answer, or a status with a body that
\* is either undecodable or JSON with (possibly no) vehicle nodes.
IdentityAnswers(nodeLists) ==
    {[transport |-> "error", status |-> 0, kind |-> "none", nodes |-> <<>>]}
      \cup {[transport |-> "ok", status |-> st, kind |-> "undecodable",
             nodes |-> <<>>] : st \in IdentityStatuses}
      \cup {[transport |-> "ok", status |-> st, kind |-> "json", nodes |-> n] :
              st \in IdentityStatuses, n \in nodeLists}

IdentityUpstreams == IdentityAnswers(SeqsUpTo(Vehicles, MaxVehicles))

SampleIdentityUpstreams ==
    {up \in IdentityAnswers({<<"v1">>}) : up.status \in {0, 200}}

\* POST of the GraphQL query with filterBy: { owner: ethAddress }
IdentityCall(ethAddress) == [service |-> "identity", owner |-> ethAddress]

\* The query's verdict: the vehicles and error it returns and the outbound
\* call it made.  The response's status code is never read.
queryIdentityAPIForVehicles(ethAddress, up) ==
    LET calls == <<IdentityCall(ethAddress)>> IN
    IF up.transport = "error"
    THEN [vehicles |-> <<>>, err |-> "transport error", calls |-> calls]
    ELSE IF up.kind = "undecodable"
    THEN [vehicles |-> <<>>, err |-> "decode error", calls |-> calls]
    ELSE [vehicles |-> up.nodes, err |-> "", calls |-> calls]

\* ethAddress, ok := c.Locals(EthereumAddressKey).(string)
localIsString(locals) == locals.type = "string"

localString(locals) == IF localIsString(locals) THEN locals.value ELSE ""

HandleGetVehicles(locals, up) ==
    LET ok == localIsString(locals)
        ethAddress == localString(locals)
    IN
    IF ~ok \/ ethAddress = ""
    THEN SendString(StatusBadRequest, "Ethereum address is required", <<>>)
    ELSE LET q == queryIdentityAPIForVehicles(ethAddress, up) IN
         IF q.err # ""
         THEN SendString(StatusInternalServerError, q.err, q.calls)
         ELSE [outcome |-> "ok", status |-> StatusOK, message |-> "",
               cookie |-> NoCookie,
               body |-> [Title |-> "My Vehicles", Vehicles |-> q.vehicles],
               calls |-> q.calls]

\* variant: the route is registered without the gate
vehiclesRouteOpen(cred, up) == HandleGetVehicles(NilLocal, up)

\* app.Get("/api/vehicles/me", jwtMiddleware, HandleGetVehicles)
vehiclesRoute(cred, up) ==
    LET gate == jwtMiddleware(cred) IN
    IF gate.next THEN HandleGetVehicles(gate.locals, up) ELSE gate.resp

-----------------------------------------------------------------------------
(* Actions.  A handler runs when no request is being answered and leaves   *)
(* its request and response in req and resp; Reply hands the response to   *)
(* the client.  The clock and the janitor run between requests.             *)

Idle == alive /\ req = NoReq

\* request goroutines, one per connection being served
Tasks == 1..MaxTasks

\* a goroutine that is not inside queryTripsAPI's loop or the handler's lookup
IdleTask == [pc |-> "idle", tokenID |-> 0, trips |-> <<>>, tripID |-> ""]

Init ==
    /\ cacheInstance = NewCache
    /\ tripIDToTokenIDMap = EmptyMap
    /\ alive = TRUE
    /\ req = NoReq
    /\ resp = NoResp
    /\ listed = {}
    /\ tasks = [t \in Tasks |-> IdleTask]

\* the cache holds at most MaxEntries items
Room(c, k) == k \in DOMAIN c \/ Cardinality(DOMAIN c) < MaxEntries

IssueChallenge ==
    /\ Idle
    /\ \E address \in Addresses, up \in ChallengeUpstreams :
        /\ req' = [op |-> "issueChallenge", address |-> address, upstream |-> up]
        /\ resp' = HandleGenerateChallenge(address, up)
    /\ UNCHANGED <<cacheInstance, tripIDToTokenIDMap, alive, listed, tasks>>

SubmitSignature ==
    /\ Idle
    /\ \E form \in SubmitForms, up \in SubmitUpstreams,
          uuid \in FreshUUIDs(cacheInstance) :
        LET h == HandleSubmitChallenge(form, up, uuid) IN
        /\ h.set # <<>> => Room(cacheInstance, h.set[1].key)
        /\ req' = [op |-> "submitSignature", form |-> form, upstream |-> up]
        /\ resp' = h.resp
        /\ cacheInstance' =
             IF h.set = <<>> THEN cacheInstance
             ELSE CacheSet(cacheInstance, h.set[1].key, h.set[1].value,
                           h.set[1].ttl)
    /\ UNCHANGED <<tripIDToTokenIDMap, alive, listed, tasks>>

\* The handler that caches a session's privilege token under the key the trip
\* aggregator reads.
CachePrivilegeToken ==
    /\ Idle
    /\ \E sessionCookie \in Cookies, token \in Tokens :
        LET key == <<"privilegeToken_">> \o sessionCookie IN
        /\ Room(cacheInstance, key)
        /\ cacheInstance' = CacheSet(CacheInstance, key, token, SessionTTL)
    /\ UNCHANGED <<tripIDToTokenIDMap, alive, req, resp, listed, tasks>>

ListTripsBy(cookies) ==
    /\ Idle
    /\ \E tokenID \in TokenIDs, sessionCookie \in cookies, up \in TripsUpstreams :
        LET q == queryTripsAPI(tokenID, sessionCookie, up, CacheInstance,
                               tripIDToTokenIDMap) IN
        /\ req' = [op |-> "listTrips", cookie |-> sessionCookie,
                   tokenID |-> tokenID, upstream |-> up]
        /\ resp' = [outcome |-> IF q.err = "" THEN "ok" ELSE "error",
                    status |-> 0, message |-> q.err, cookie |-> NoCookie,
                    body |-> [trips |-> q.trips], calls |-> q.calls]
        /\ tripIDToTokenIDMap' = q.index
        /\ listed' = IF q.err = "" THEN listed \cup Range(q.trips) ELSE listed
    /\ UNCHANGED <<cacheInstance, alive, tasks>>

ListTrips == ListTripsBy(Cookies)

ListVehicles ==
    /\ Idle
    /\ \E cred \in Credentials, up \in SampleIdentityUpstreams :
        /\ req' = [op |-> "listVehicles", credential |-> cred, upstream |-> up]
        /\ resp' = vehiclesRoute(cred, up)
    /\ UNCHANGED <<cacheInstance, tripIDToTokenIDMap, alive, listed, tasks>>

GetTripPathFrom(upstreams) ==
    /\ Idle
    /\ \E sessionCookie \in Cookies, tripID \in TripIDs, w \in TimeWindows,
          up \in upstreams :
        /\ req' = [op |-> "getTripPath", cookie |-> sessionCookie,
                   tripID |-> tripID, startTime |-> w[1], endTime |-> w[2],
                   upstream |-> up]
        /\ resp' = handleMapDataForTrip(sessionCookie, tripID, w[1], w[2], up,
                                        CacheInstance, tripIDToTokenIDMap)
        /\ alive' = (resp'.outcome # "panic")
    /\ UNCHANGED <<cacheInstance, tripIDToTokenIDMap, listed, tasks>>

GetTripPath == GetTripPathFrom(HistoryFailures \cup HistoryAnswers(SamplePayloads))

Reply ==
    /\ alive
    /\ req # NoReq
    /\ req' = NoReq
    /\ resp' = NoResp
    /\ UNCHANGED <<cacheInstance, tripIDToTokenIDMap, alive, listed, tasks>>

Janitor ==
    /\ Idle
    /\ cacheInstance' = DeleteExpired(cacheInstance)
    /\ cacheInstance' # cacheInstance
    /\ UNCHANGED <<tripIDToTokenIDMap, alive, req, resp, listed, tasks>>

Tick ==
    /\ Idle
    /\ cacheInstance' = Age(cacheInstance)
    /\ cacheInstance' # cacheInstance
    /\ UNCHANGED <<tripIDToTokenIDMap, alive, req, resp, listed, tasks>>

Next ==
    \/ IssueChallenge
    \/ SubmitSignature
    \/ CachePrivilegeToken
    \/ ListTrips
    \/ GetTripPath
    \/ ListVehicles
    \/ Reply
    \/ Janitor
    \/ Tick

Spec == Init /\ [][Next]_vars

\* The telemetry pipeline on every payload of at most MaxHits hits, from a
\* state in which session u1 has a privilege token cached and trip1 is indexed.
InitPath ==
    /\ cacheInstance =
         CacheSet(NewCache, privilegeTokenKey(UUIDString("u1")), "tokA", SessionTTL)
    /\ tripIDToTokenIDMap = RecordTrips(EmptyMap, <<"trip1">>, 1)
    /\ alive = TRUE
    /\ req = NoReq
    /\ resp = NoResp
    /\ listed = {"trip1"}
    /\ tasks = [t \in Tasks |-> IdleTask]

GetTripPathAny ==
    GetTripPathFrom(HistoryFailures \cup HistoryAnswers(SeqsUpTo(Hits, MaxHits)))

NextPath ==
    \/ GetTripPathAny
    \/ Reply

SpecPath == InitPath /\ [][NextPath]_vars

\* listVehicles on every value the context key can hold and every answer of
\* the identity service with at most MaxVehicles nodes.
GetVehiclesAny ==
    /\ Idle
    /\ \E locals \in {NilLocal} \cup {TokenLocal(a) : a \in Owners}
                     \cup {StringLocal(a) : a \in Owners \cup {""}},
          up \in IdentityUpstreams :
        /\ req' = [op |-> "HandleGetVehicles", locals |-> locals,
                   upstream |-> up]
        /\ resp' = HandleGetVehicles(locals, up)
    /\ UNCHANGED <<cacheInstance, tripIDToTokenIDMap, alive, listed, tasks>>

NextVehicles ==
    \/ GetVehiclesAny
    \/ Reply

SpecVehicles == Init /\ [][NextVehicles]_vars

\* The trip index under concurrent requests.  Each request is served by its
\* own goroutine; an assignment to or a lookup in the map is not atomic, so
\* it has a beginning and an end, and nothing in the code orders the
\* accesses of different goroutines.
InitRace ==
    /\ cacheInstance =
         CacheSet(NewCache, privilegeTokenKey(UUIDString("u1")), "tokA", SessionTTL)
    /\ tripIDToTokenIDMap = EmptyMap
    /\ alive = TRUE
    /\ req = NoReq
    /\ resp = NoResp
    /\ listed = {}
    /\ tasks = [t \in Tasks |-> IdleTask]

\* queryTripsAPI has decoded the trips and is at the head of its loop
ListTripsDecoded(t) ==
    /\ alive
    /\ tasks[t].pc = "idle"
    /\ \E tokenID \in TokenIDs, up \in TripsUpstreams :
        LET q == queryTripsAPI(tokenID, UUIDString("u1"), up, CacheInstance,
                               tripIDToTokenIDMap) IN
        /\ q.err = ""
        /\ tasks' = [tasks EXCEPT ![t] = [pc |-> "recording", tokenID |-> tokenID,
                                          trips |-> q.trips, tripID |-> ""]]
    /\ UNCHANGED <<cacheInstance, tripIDToTokenIDMap, alive, req, resp, listed>>

\* tripIDToTokenIDMap[trip.ID] = tokenID begins
WriteIndexBegin(t) ==
    /\ alive
    /\ tasks[t].pc = "recording"
    /\ tasks[t].trips # <<>>
    /\ tasks' = [tasks EXCEPT ![t].pc = "writing"]
    /\ UNCHANGED <<cacheInstance, tripIDToTokenIDMap, alive, req, resp, listed>>

\* the assignment completes and the loop moves to the next trip
WriteIndexEnd(t) ==
    /\ alive
    /\ tasks[t].pc = "writing"
    /\ tripIDToTokenIDMap' =
         RecordTrips(tripIDToTokenIDMap, <<Head(tasks[t].trips)>>, tasks[t].tokenID)
    /\ tasks' = [tasks EXCEPT ![t].pc = "recording",
                              ![t].trips = Tail(tasks[t].trips)]
    /\ UNCHANGED <<cacheInstance, alive, req, resp, listed>>

\* the loop is over and queryTripsAPI returns
ListTripsReturn(t) ==
    /\ alive
    /\ tasks[t].pc = "recording"
    /\ tasks[t].trips = <<>>
    /\ tasks' = [tasks EXCEPT ![t] = IdleTask]
    /\ UNCHANGED <<cacheInstance, tripIDToTokenIDMap, alive, req, resp, listed>>

\* handleMapDataForTrip is entered for a trip id
GetTripPathEntered(t) ==
    /\ alive
    /\ tasks[t].pc = "idle"
    /\ \E tripID \in TripIDs :
        tasks' = [tasks EXCEPT ![t] = [pc |-> "lookup", tokenID |-> 0,
                                       trips |-> <<>>, tripID |-> tripID]]
    /\ UNCHANGED <<cacheInstance, tripIDToTokenIDMap, alive, req, resp, listed>>

\* tokenID, exists := tripIDToTokenIDMap[tripID] begins
ReadIndexBegin(t) ==
    /\ alive
    /\ tasks[t].pc = "lookup"
    /\ tasks' = [tasks EXCEPT ![t].pc = "reading"]
    /\ UNCHANGED <<cacheInstance, tripIDToTokenIDMap, alive, req, resp, listed>>

\* the lookup completes and the handler goes on without the index
ReadIndexEnd(t) ==
    /\ alive
    /\ tasks[t].pc = "reading"
    /\ tasks' = [tasks EXCEPT ![t] = IdleTask]
    /\ UNCHANGED <<cacheInstance, tripIDToTokenIDMap, alive, req, resp, listed>>

\* two goroutines are inside the map at once, one of them writing
IndexRace ==
    \E t1, t2 \in Tasks :
        /\ t1 # t2
        /\ tasks[t1].pc = "writing"
        /\ tasks[t2].pc \in {"writing", "reading"}

\* the runtime may detect the unsynchronised access and stop the process
\* ("fatal error: concurrent map writes" / "concurrent map read and map write")
ConcurrentMapFault ==
    /\ alive
    /\ IndexRace
    /\ alive' = FALSE
    /\ UNCHANGED <<cacheInstance, tripIDToTokenIDMap, req, resp, listed, tasks>>

NextRace ==
    \/ \E t \in Tasks : ListTripsDecoded(t)
    \/ \E t \in Tasks : WriteIndexBegin(t)
    \/ \E t \in Tasks : WriteIndexEnd(t)
    \/ \E t \in Tasks : ListTripsReturn(t)
    \/ \E t \in Tasks : GetTripPathEntered(t)
    \/ \E t \in Tasks : ReadIndexBegin(t)
    \/ \E t \in Tasks : ReadIndexEnd(t)
    \/ ConcurrentMapFault

SpecRace == InitRace /\ [][NextRace]_vars

\* Two sessions with different privilege tokens cached; only session u1
\* lists trips, any session asks for the path of a trip.
InitCross ==
    /\ cacheInstance =
         CacheSet(CacheSet(NewCache, <<"privilegeToken_", "u1">>, "tokA", SessionTTL),
                  <<"privilegeToken_", "u2">>, "tokB", SessionTTL)
    /\ tripIDToTokenIDMap = EmptyMap
    /\ alive = TRUE
    /\ req = NoReq
    /\ resp = NoResp
    /\ listed = {}
    /\ tasks = [t \in Tasks |-> IdleTask]

ListTripsFirstSession == ListTripsBy({UUIDString("u1")})

NextCross ==
    \/ ListTripsFirstSession
    \/ GetTripPath
    \/ Reply
    \/ Janitor
    \/ Tick

SpecCross == InitCross /\ [][NextCross]_vars

-----------------------------------------------------------------------------
(* Properties *)

TripOps == {"listTrips", "getTripPath"}

\* the submit request's upstream answer passes every check of the handler
Accepted(up) ==
    /\ up.transport = "ok"
    /\ up.status < 300
    /\ up.body.kind = "map"
    /\ "access_token" \in DOMAIN up.body.map

\* C1: after a submitSignature whose upstream answer has status < 300 and a
\* map with access_token, the session cookie's value is a key of the cache,
\* the item under it holds exactly that access_token with 2 hours to live,
\* and the cookie expires in 2 hours too.
C1_CookieMapsToToken ==
    (req.op = "submitSignature" /\ Accepted(req.upstream)) =>
        /\ resp.outcome = "ok"
        /\ DOMAIN resp.cookie # {}
        /\ resp.cookie.name = "session_id"
        /\ resp.cookie.value \in DOMAIN cacheInstance
        /\ cacheInstance[resp.cookie.value].value
             = req.upstream.body.map["access_token"]
        /\ cacheInstance[resp.cookie.value].ttl = 2
        /\ resp.cookie.expires = 2

\* C1 witness: an accepted submission answered while another session is cached.
C1_Witness ==
    /\ req.op = "submitSignature"
    /\ Accepted(req.upstream)
    /\ resp.status = 200
    /\ Cardinality(DOMAIN cacheInstance) = 2

\* a session that submitSignature established and that has not expired
LiveSession(cookie) == CacheFound(cacheInstance, cookie)

\* the request gets as far as the privilege-token lookup
ReachesLookup ==
    /\ req.op \in TripOps
    /\ req.op = "getTripPath" => req.tripID \in DOMAIN tripIDToTokenIDMap

C3_MissNoOutbound ==
    (req.op \in TripOps
     /\ LET key == <<"privilegeToken_">> \o req.cookie IN
        key \notin DOMAIN cacheInstance \/ cacheInstance[key].ttl < 0) =>
        /\ resp.outcome = "error"
        /\ resp.calls = <<>>

\* C3 witness: getTripPath for an indexed trip with a session whose privilege
\* token has expired but is still stored.
C3_Witness ==
    /\ req.op = "getTripPath"
    /\ req.tripID \in DOMAIN tripIDToTokenIDMap
    /\ LET key == <<"privilegeToken_">> \o req.cookie IN
       key \in DOMAIN cacheInstance /\ cacheInstance[key].ttl < 0
    /\ resp.outcome = "error"

\* C4: getTripPath for a trip id that no successful listTrips has returned
\* answers 404 and makes no telemetry request, whatever the session.
C4_UnlistedTripNotFound ==
    (req.op = "getTripPath" /\ req.tripID \notin listed) =>
        /\ resp.status = 404
        /\ resp.calls = <<>>

\* C4 witness: a 404 for an unlisted trip although the session's privilege
\* token is cached and another trip is indexed.
C4_Witness ==
    /\ req.op = "getTripPath"
    /\ req.tripID \notin listed
    /\ listed # {}
    /\ CacheFound(cacheInstance, <<"privilegeToken_">> \o req.cookie)
    /\ resp.status = 404

\* every hit of the payload has latitude, longitude and timestamp
WellFormed(hits) ==
    \A i \in 1..Len(hits) :
        {"latitude", "longitude", "timestamp"} \subseteq DOMAIN hits[i]

\* the request reaches the telemetry pipeline with a decoded hits array
ReachesPipeline ==
    /\ req.op = "getTripPath"
    /\ req.tripID \in DOMAIN tripIDToTokenIDMap
    /\ CacheFound(cacheInstance, <<"privilegeToken_">> \o req.cookie)
    /\ req.upstream.kind = "json"

Coordinates == resp.body.features[1].geometry.coordinates

\* coords are the hits taken in the order p, each as [longitude, latitude]
Converts(hits, p, coords) ==
    /\ Len(coords) = Len(hits)
    /\ \A i \in 1..Len(hits) :
        coords[i] = <<hits[p[i]]["longitude"], hits[p[i]]["latitude"]>>

ExamplePayload ==
    <<[latitude |-> 10, longitude |-> 20, timestamp |-> <<0, 2>>],
      [latitude |-> 11, longitude |-> 21, timestamp |-> <<0, 1>>]>>

\* C5: for a well-formed payload the coordinates are a permutation of the
\* hits, one [longitude, latitude] pair per hit, ascending by timestamp
\* string; the timestamps 02, 01 with (10,20), (11,21) give [[21,11],[20,10]].
C5_CoordinatesAscending ==
    (ReachesPipeline /\ WellFormed(req.upstream.hits)) =>
        LET hits == req.upstream.hits IN
        /\ resp.status = 200
        /\ \E p \in Permutations(1..Len(hits)) :
            /\ Converts(hits, p, Coordinates)
            /\ \A i \in 1..(Len(hits) - 1) :
                ~StrLess(hits[p[i + 1]]["timestamp"], hits[p[i]]["timestamp"])
        /\ hits = ExamplePayload => Coordinates = <<<<21, 11>>, <<20, 10>>>>

\* C5 witness: the example payload answered.
C5_Witness ==
    /\ ReachesPipeline
    /\ req.upstream.hits = ExamplePayload
    /\ resp.status = 200
    /\ Coordinates = <<<<21, 11>>, <<20, 10>>>>

SortedByTimestamp(hits) ==
    \A i \in 1..(Len(hits) - 1) :
        ~StrLess(hits[i + 1]["timestamp"], hits[i]["timestamp"])

\* C6: the sort is idempotent (an already sorted payload comes out in input
\* order) and stable (hits with equal timestamps keep their input order).
C6_SortIdempotentStable ==
    (ReachesPipeline /\ WellFormed(req.upstream.hits)) =>
        LET hits == req.upstream.hits IN
        /\ resp.status = 200
        /\ SortedByTimestamp(hits) =>
             Converts(hits, [i \in 1..Len(hits) |-> i], Coordinates)
        /\ \E p \in Permutations(1..Len(hits)) :
            /\ Converts(hits, p, Coordinates)
            /\ \A i, j \in 1..Len(hits) :
                (i < j /\ hits[p[i]]["timestamp"] = hits[p[j]]["timestamp"])
                    => p[i] < p[j]

\* C6 witness: an unsorted payload with two different hits of equal
\* timestamp, answered.
C6_Witness ==
    /\ ReachesPipeline
    /\ WellFormed(req.upstream.hits)
    /\ resp.status = 200
    /\ LET hits == req.upstream.hits IN
       /\ ~SortedByTimestamp(hits)
       /\ \E i, j \in 1..Len(hits) :
            /\ i < j
            /\ hits[i]["timestamp"] = hits[j]["timestamp"]
            /\ hits[i]["latitude"] # hits[j]["latitude"]

\* C7 as claimed: a payload with a hit lacking latitude or longitude (every
\* hit having its timestamp) ends in a structured error response, a 5xx with
\* an error body, and no coordinates.
C7_MissingFieldIsErrorResponse ==
    (/\ ReachesPipeline
     /\ \A i \in 1..Len(req.upstream.hits) :
            "timestamp" \in DOMAIN req.upstream.hits[i]
     /\ \E i \in 1..Len(req.upstream.hits) :
            \/ "latitude" \notin DOMAIN req.upstream.hits[i]
            \/ "longitude" \notin DOMAIN req.upstream.hits[i]) =>
        /\ resp.outcome = "error"
        /\ resp.status >= 500
        /\ "error" \in DOMAIN resp.body
        /\ "features" \notin DOMAIN resp.body

\* C8 as claimed: a submitSignature response hands the browser the opaque
\* session identifier only; neither the cookie nor any field of the body is
\* the access_token.
C8_TokenNotSentToBrowser ==
    (req.op = "submitSignature" /\ Accepted(req.upstream)) =>
        /\ resp.cookie.value \in {<<u>> : u \in UUIDs}
        /\ \A f \in DOMAIN resp.body :
            resp.body[f] # req.upstream.body.map["access_token"]

\* C9: a submitSignature that fails (transport error, status >= 300, body not
\* decodable as a map, access_token absent) answers an error, leaves the
\* cache unchanged and sets no cookie.
C9_FailedSubmitLeavesCache ==
    [][(req.op = "none" /\ req'.op = "submitSignature"
        /\ ~Accepted(req'.upstream)) =>
            /\ resp'.outcome = "error"
            /\ resp'.status = 500
            /\ resp'.cookie = NoCookie
            /\ cacheInstance' = cacheInstance]_vars

\* C9 witness: a failed submission answered while a session is cached.
C9_Witness ==
    /\ req.op = "submitSignature"
    /\ ~Accepted(req.upstream)
    /\ req.upstream.status = 300
    /\ req.upstream.body.kind = "map"
    /\ resp.outcome = "error"
    /\ DOMAIN cacheInstance # {}

\* C10 as claimed: issueChallenge with an empty address answers 400 and does
\* not call the identity provider's challenge endpoint.
C10_EmptyAddressRejected ==
    (req.op = "issueChallenge" /\ req.address = "") =>
        /\ resp.status = 400
        /\ resp.calls = <<>>

\* C11 as claimed: a getTripPath request for an indexed trip whose session
\* cookie has no cached privilege token is answered 401, a status that
\* differs from the 5xx of upstream and malformed-response failures and from
\* the 404 of an unknown trip.
C11_MissingTokenIsUnauthorized ==
    (/\ req.op = "getTripPath"
     /\ req.tripID \in DOMAIN tripIDToTokenIDMap
     /\ ~CacheFound(cacheInstance, <<"privilegeToken_">> \o req.cookie)) =>
        /\ resp.status = 401
        /\ resp.status < 500
        /\ resp.status # 404

\* C12: a request to the protected vehicles route whose bearer credential
\* fails validation (missing, expired, malformed, signature mismatch, key set
\* fetch failure) is answered 401 Unauthorized, with nothing of what
\* listVehicles produces (no vehicle page, none of its rejections) and with
\* no call to the identity service.
C12_GateFailsClosed ==
    (req.op = "listVehicles" /\ ~req.credential.valid) =>
        /\ resp.status = 401
        /\ resp.message = "Unauthorized"
        /\ resp.outcome = "error"
        /\ resp.body = NoBody
        /\ resp.calls = <<>>

\* C12 witness: the key set could not be fetched and the request was refused.
C12_Witness ==
    /\ req.op = "listVehicles"
    /\ req.credential.failure = "key set fetch failure"
    /\ req.upstream.transport = "ok"
    /\ req.upstream.kind = "json"
    /\ resp.status = 401

\* C13 as claimed: once the gate has accepted a credential for address A,
\* listVehicles does not reject the request for a missing address and queries
\* the identity service exactly once, with owner filter A.
C13_HandlerSeesAddress ==
    (req.op = "listVehicles" /\ req.credential.valid) =>
        /\ resp.message # "Ethereum address is required"
        /\ Len(resp.calls) = 1
        /\ resp.calls[1].service = "identity"
        /\ resp.calls[1].owner = req.credential.address

\* C14 as claimed: listVehicles, reached with an address, answers with an
\* error and without a vehicle list whenever the identity service cannot be
\* reached, answers with a status outside 200..299, or answers with a body
\* that is not decodable JSON.
C14_IdentityFailureIsError ==
    (/\ req.op = "HandleGetVehicles"
     /\ req.locals.type = "string"
     /\ req.locals.value # ""
     /\ \/ req.upstream.transport = "error"
        \/ req.upstream.status \notin 200..299
        \/ req.upstream.kind = "undecodable") =>
        /\ resp.outcome = "error"
        /\ resp.status >= 400
        /\ "Vehicles" \notin DOMAIN resp.body

\* C15 as claimed: no two requests are inside the trip index at once when
\* one of them writes it.
C15_IndexAccessExclusive ==
    \A t1, t2 \in Tasks :
        (t1 # t2 /\ tasks[t1].pc = "writing") =>
            tasks[t2].pc \notin {"writing", "reading"}

\* C16: a listTrips(vehicleTokenID) that succeeds with the trip set T leaves
\* the index mapping every trip id of T to vehicleTokenID, whatever it mapped
\* to before, and every trip id outside T as it was (absent if it was
\* absent); a listTrips that fails leaves the index as it was.
C16_ListTripsFrame ==
    [][(req.op = "none" /\ req'.op = "listTrips") =>
        IF resp'.outcome = "ok"
        THEN LET T == Range(resp'.body.trips) IN
             /\ \A t \in T :
                  /\ t \in DOMAIN tripIDToTokenIDMap'
                  /\ tripIDToTokenIDMap'[t] = req'.tokenID
             /\ \A t \in TripIDs \ T :
                  /\ t \in DOMAIN tripIDToTokenIDMap' <=> t \in DOMAIN tripIDToTokenIDMap
                  /\ t \in DOMAIN tripIDToTokenIDMap =>
                       tripIDToTokenIDMap'[t] = tripIDToTokenIDMap[t]
        ELSE tripIDToTokenIDMap' = tripIDToTokenIDMap]_vars

\* C16 witness: vehicle 2 listed trip1 after vehicle 1 had listed trip2, whose
\* mapping stayed.
C16_Witness ==
    /\ req.op = "listTrips"
    /\ resp.outcome = "ok"
    /\ req.tokenID = 2
    /\ resp.body.trips = <<"trip1">>
    /\ DOMAIN tripIDToTokenIDMap = {"trip1", "trip2"}
    /\ tripIDToTokenIDMap["trip1"] = 2
    /\ tripIDToTokenIDMap["trip2"] = 1

\* C17: no step of the service removes a trip id from the index.
C17_IndexGrowsOnly ==
    [][\A t \in DOMAIN tripIDToTokenIDMap : t \in DOMAIN tripIDToTokenIDMap']_vars

\* C17 witness: both trips are indexed, a later listTrips returned neither of
\* them, and a session is cached.
C17_Witness ==
    /\ req.op = "listTrips"
    /\ resp.outcome = "ok"
    /\ resp.body.trips = <<>>
    /\ DOMAIN tripIDToTokenIDMap = {"trip1", "trip2"}
    /\ \E c \in Cookies : c \in DOMAIN cacheInstance

\* C18 as claimed: a payload with a hit that has no timestamp, of any size and
\* also of exactly one hit, makes getTripPath answer with an error and with
\* no coordinates (stated for payloads whose hits all have both coordinates).
C18_MissingTimestampIsError ==
    (/\ ReachesPipeline
     /\ \A i \in 1..Len(req.upstream.hits) :
            {"latitude", "longitude"} \subseteq DOMAIN req.upstream.hits[i]
     /\ \E i \in 1..Len(req.upstream.hits) :
            "timestamp" \notin DOMAIN req.upstream.hits[i]) =>
        /\ resp.outcome = "error"
        /\ "features" \notin DOMAIN resp.body

\* C19: every getTripPath that succeeds answers a feature collection of
\* exactly one feature, a LineString with one coordinate per sample (none for
\* an empty payload), whose properties hold the request's trip id, start time
\* and end time as they were given.
C19_OneLineStringFeature ==
    (req.op = "getTripPath" /\ resp.outcome = "ok") =>
        /\ resp.body.type = "FeatureCollection"
        /\ Len(resp.body.features) = 1
        /\ resp.body.features[1].geometry.type = "LineString"
        /\ Len(resp.body.features[1].geometry.coordinates)
             = Len(req.upstream.hits)
        /\ resp.body.features[1].properties.trip_id = req.tripID
        /\ resp.body.features[1].properties.trip_start = req.startTime
        /\ resp.body.features[1].properties.trip_end = req.endTime

\* C19 witness: a payload without samples answered with one feature that has
\* no coordinates.
C19_Witness ==
    /\ req.op = "getTripPath"
    /\ resp.status = 200
    /\ req.upstream.hits = <<>>
    /\ Len(resp.body.features) = 1
    /\ resp.body.features[1].geometry.coordinates = <<>>
    /\ resp.body.features[1].properties.trip_start = "T2"

\* C20: each submitSignature that succeeds mints a session id that was not a
\* key of the cache, adds exactly that one entry, holding the token returned
\* for this submission, and leaves every entry that was there as it was; so
\* a submission that repeats an accepted (state, signature) adds a further,
\* separate session.
C20_SubmitAddsOneSession ==
    [][(req.op = "none" /\ req'.op = "submitSignature" /\ resp'.outcome = "ok") =>
        LET id == resp'.cookie.value IN
        /\ id \notin DOMAIN cacheInstance
        /\ DOMAIN cacheInstance' = DOMAIN cacheInstance \cup {id}
        /\ Cardinality(DOMAIN cacheInstance') = Cardinality(DOMAIN cacheInstance) + 1
        /\ \A k \in DOMAIN cacheInstance : cacheInstance'[k] = cacheInstance[k]
        /\ cacheInstance'[id].value = req'.upstream.body.map["access_token"]]_vars

\* C20 witness: the same (state, signature) was accepted twice and the cache
\* holds two sessions, the earlier one still with its own token.
C20_Witness ==
    /\ req.op = "submitSignature"
    /\ req.form = [state |-> "s1", signature |-> "sig1"]
    /\ resp.outcome = "ok"
    /\ Cookies \subseteq DOMAIN cacheInstance
    /\ \E c \in Cookies :
        /\ c # resp.cookie.value
        /\ cacheInstance[c].value # cacheInstance[resp.cookie.value].value

\* C21: every outbound trip-listing or telemetry call carries as bearer the
\* privilege token cached for the cookie of the request being served, and
\* the telemetry call names the vehicle the index holds for the trip id,
\* whichever session listed it: a session that listed nothing gets the
\* trip's vehicle queried with its own token.
C21_BearerIsRequestersToken ==
    (req.op \in TripOps) =>
        /\ \A i \in 1..Len(resp.calls) :
             LET key == <<"privilegeToken_">> \o req.cookie IN
             /\ key \in DOMAIN cacheInstance
             /\ resp.calls[i].bearer = cacheInstance[key].value
             /\ resp.calls[i].tokenID =
                  IF req.op = "listTrips" THEN req.tokenID
                  ELSE tripIDToTokenIDMap[req.tripID]
        /\ (/\ req.op = "getTripPath"
            /\ req.tripID \in DOMAIN tripIDToTokenIDMap
            /\ CacheFound(cacheInstance, <<"privilegeToken_">> \o req.cookie)) =>
               Len(resp.calls) = 1

\* C21 witness: session u2, which listed nothing, asked for the path of a
\* trip listed by u1 for vehicle 2; the telemetry call for vehicle 2 went out
\* with u2's token while u1's differs.
C21_Witness ==
    /\ req.op = "getTripPath"
    /\ req.cookie = <<"u2">>
    /\ req.tripID \in listed
    /\ Len(resp.calls) = 1
    /\ resp.calls[1].tokenID = 2
    /\ resp.calls[1].bearer = "tokB"
    /\ cacheInstance[<<"privilegeToken_", "u1">>].value = "tokA"

====
